---------------------------- MODULE Spec2Model ----------------------------
(***************************************************************************)
(* Model of app.py, the "Dashboard de Consumos Musicales en Argentina".    *)
(*                                                                         *)
(* One run of the script is: load_and_clean_data() on the table read from  *)
(* encuesta_musica.tab, then the six tabs in order.  An uncaught exception  *)
(* stops the script: pc becomes "crashed" and err names the exception.      *)
(*                                                                         *)
(* A table is [cols, rows]: cols is the set of column names, rows a         *)
(* sequence of functions from cols (plus "index", the DataFrame index) to   *)
(* cells.  A raw cell is text (a sequence of characters) or NaN; a cleaned  *)
(* cell is a number.  Percentages and regression results are exact          *)
(* rationals where pandas and scikit-learn use floats.                      *)
(***************************************************************************)
EXTENDS Integers, Sequences, FiniteSets, TLC

VARIABLES raw, df, pc, err, warnings, panels, defined,
          genre_age, genre_region, genre_region_percent,
          rock_by_age, rock_counts_by_age, rock_by_region, rock_by_gender,
          regression_df, fit, first, applied

vars == <<raw, df, pc, err, warnings, panels, defined,
          genre_age, genre_region, genre_region_percent,
          rock_by_age, rock_counts_by_age, rock_by_region, rock_by_gender,
          regression_df, fit, first, applied>>

(***************************************************************************)
(* Bounds of the model.                                                    *)
(***************************************************************************)
\* Largest number of rows of the input file.
MaxRows == 2

\* Largest number of times a step is applied again to the loaded table.
MaxApply == 1

(***************************************************************************)
(* Cells.                                                                  *)
(***************************************************************************)
NaN == [k |-> "nan", s |-> <<>>, n |-> 0]

Str(s) == [k |-> "str", s |-> s, n |-> 0]

Num(n) == [k |-> "num", s |-> <<>>, n |-> n]

\* A value of a categorical column: one of the category labels.
Cat(l) == [k |-> "cat", s |-> <<l>>, n |-> 0]

DigitValue ==
    ("0" :> 0) @@ ("1" :> 1) @@ ("2" :> 2) @@ ("3" :> 3) @@ ("4" :> 4) @@
    ("5" :> 5) @@ ("6" :> 6) @@ ("7" :> 7) @@ ("8" :> 8) @@ ("9" :> 9)

IsSpace(c) == c = " "

RECURSIVE LStrip(_)
LStrip(s) == IF s # <<>> /\ IsSpace(Head(s)) THEN LStrip(Tail(s)) ELSE s

RECURSIVE RStrip(_)
RStrip(s) ==
    IF s # <<>> /\ IsSpace(s[Len(s)]) THEN RStrip(SubSeq(s, 1, Len(s) - 1)) ELSE s

\* str.strip(): leading and trailing whitespace removed, the inside kept.
Strip(s) == RStrip(LStrip(s))

\* The value of a run of decimal digits, or -1 when a character is no digit.
RECURSIVE ParseDigits(_, _)
ParseDigits(s, acc) ==
    IF s = <<>> THEN acc
    ELSE IF Head(s) \in DOMAIN DigitValue
         THEN ParseDigits(Tail(s), 10 * acc + DigitValue[Head(s)])
         ELSE -1

\* The numeric parse of a text: surrounding whitespace skipped, an optional
\* sign, then digits up to the end of the text.
ParseNumber(s) ==
    LET t     == Strip(s)
        neg   == t # <<>> /\ Head(t) = "-"
        signd == t # <<>> /\ Head(t) \in {"-", "+"}
        body  == IF signd THEN Tail(t) ELSE t
        v     == IF body = <<>> THEN -1 ELSE ParseDigits(body, 0)
    IN  [ok |-> v >= 0, v |-> IF neg THEN 0 - v ELSE v]

\* pd.to_numeric(..., errors='coerce') on one cell.
to_numeric(cell) ==
    IF cell.k = "str"
    THEN LET p == ParseNumber(cell.s) IN IF p.ok THEN Num(p.v) ELSE NaN
    ELSE cell

\* .fillna(0) on one cell.
fillna0(cell) == IF cell.k = "nan" THEN Num(0) ELSE cell

\* A mutant of StripCell: one character cut from each end of the text.
StripCellOneChar(cell) ==
    IF cell.k = "str"
    THEN Str(IF Len(cell.s) >= 2 THEN SubSeq(cell.s, 2, Len(cell.s) - 1) ELSE <<>>)
    ELSE NaN

\* .str.strip() on one cell of an object column: a non-text element gives NaN.
StripCell(cell) == IF cell.k = "str" THEN Str(Strip(cell.s)) ELSE NaN

(***************************************************************************)
(* Configuration.                                                          *)
(***************************************************************************)
\* The genre groups, in the order of the dictionary.
genre_group_columns ==
    <<"MUSICA URBANA", "ROCK Y METAL", "FOLKLORE Y TANGO", "POP Y ELECTRONICA", "CUMBIA">>

GENRE_CATEGORIES ==
    [g \in {genre_group_columns[i] : i \in 1..Len(genre_group_columns)} |->
        CASE g = "MUSICA URBANA"     -> {"MUSICA8_1", "MUSICA8_2", "MUSICA8_3", "MUSICA8_13"}
          [] g = "ROCK Y METAL"      -> {"MUSICA8_4", "MUSICA8_5", "MUSICA8_6"}
          [] g = "FOLKLORE Y TANGO"  -> {"MUSICA8_7", "MUSICA8_8"}
          [] g = "POP Y ELECTRONICA" -> {"MUSICA8_9", "MUSICA8_10"}
          [] g = "CUMBIA"            -> {"MUSICA8_11", "MUSICA8_12"}]

Groups == DOMAIN GENRE_CATEGORIES

\* f'CAT_{category}'
CatCol(g) ==
    CASE g = "MUSICA URBANA"     -> "CAT_MUSICA URBANA"
      [] g = "ROCK Y METAL"      -> "CAT_ROCK Y METAL"
      [] g = "FOLKLORE Y TANGO"  -> "CAT_FOLKLORE Y TANGO"
      [] g = "POP Y ELECTRONICA" -> "CAT_POP Y ELECTRONICA"
      [] g = "CUMBIA"            -> "CAT_CUMBIA"

\* The columns of the survey file whose name starts with 'MUSICA8_'.
\* MUSICA8_14 belongs to no genre group.
Musica8Names ==
    {"MUSICA8_1", "MUSICA8_2", "MUSICA8_3", "MUSICA8_4", "MUSICA8_5", "MUSICA8_6",
     "MUSICA8_7", "MUSICA8_8", "MUSICA8_9", "MUSICA8_10", "MUSICA8_11", "MUSICA8_12",
     "MUSICA8_13", "MUSICA8_14"}

\* col.startswith('MUSICA8_')
StartsWithMUSICA8(col) == col \in Musica8Names

text_cols_to_clean == {"REGION", "GENERO", "MUSICA1", "MUSICA9", "MUSICA10"}

\* pd.cut's bins and labels.
bins == <<12, 17, 29, 49, 64, 100>>

labels == <<Cat("13-17"), Cat("18-29"), Cat("30-49"), Cat("50-64"), Cat("65+")>>

\* The null category of GRUPOS_EDAD.
NoBand == NaN

(***************************************************************************)
(* Tables.                                                                 *)
(***************************************************************************)
\* df[col] = series, a column added or overwritten in place; series has
\* one value per row.
WithCol(t, col, series) ==
    [cols |-> t.cols \cup {col},
     rows |-> [i \in DOMAIN t.rows |->
                 [c \in DOMAIN t.rows[i] \cup {col} |->
                     IF c = col THEN series[i] ELSE t.rows[i][c]]]]

\* The value a cell adds to a sum (skipna: a missing cell adds nothing).
CellValue(cell) == IF cell.k = "num" THEN cell.n ELSE 0

RECURSIVE SumColumns(_, _)
SumColumns(row, cs) ==
    IF cs = {} THEN 0
    ELSE LET c == CHOOSE x \in cs : TRUE
         IN  CellValue(row[c]) + SumColumns(row, cs \ {c})

(***************************************************************************)
(* load_and_clean_data                                                     *)
(***************************************************************************)
\* A mutant of CoerceFill: the missing values left as they are.
CoerceNoFill(cell) == to_numeric(cell)

\* pd.to_numeric(df[col], errors='coerce').fillna(0) on one cell.
CoerceFill(cell) == fillna0(to_numeric(cell))

\* The conversion a cleaning step applies to each cell of a column.
Convert(how, cell) ==
    CASE how = "to_numeric.fillna" -> CoerceFill(cell)
      [] how = "to_numeric"        -> to_numeric(cell)
      [] how = "str.strip"         -> StripCell(cell)

\* df[col] = <conversion of df[col]> for every col of cs.
ApplyCols(t, cs, how) ==
    [cols |-> t.cols,
     rows |-> [i \in DOMAIN t.rows |->
                 [c \in DOMAIN t.rows[i] |->
                     IF c \in cs THEN Convert(how, t.rows[i][c]) ELSE t.rows[i][c]]]]

\* Lines 39-41.
CleanGenres(t) ==
    ApplyCols(t, {c \in t.cols : StartsWithMUSICA8(c)}, "to_numeric.fillna")

\* Lines 44-46: parse, drop the rows whose age did not parse, cast to int
\* (the parsed ages of the model are whole numbers).
CleanAge(t) ==
    LET parsed == ApplyCols(t, {"EDAD"}, "to_numeric")
        HasAge(row) == row["EDAD"].k # "nan"
    IN  [cols |-> parsed.cols, rows |-> SelectSeq(parsed.rows, HasAge)]

\* A mutant of InBin: the bins closed on the left (right=False).
InBinLeftClosed(a, i) == bins[i] <= a /\ a < bins[i + 1]

\* Bin i of pd.cut(..., right=True): (bins[i], bins[i+1]].
InBin(a, i) == bins[i] < a /\ a <= bins[i + 1]

\* pd.cut on one age: the label of the bin holding it, NaN outside the bins.
AgeGroup(a) ==
    IF \E i \in 1..Len(labels) : InBin(a, i)
    THEN labels[CHOOSE i \in 1..Len(labels) : InBin(a, i)]
    ELSE NoBand

\* Lines 48-51.
CutAge(t) ==
    WithCol(t, "GRUPOS_EDAD", [i \in DOMAIN t.rows |-> AgeGroup(t.rows[i]["EDAD"].n)])

\* Lines 54-57.
StripText(t) == ApplyCols(t, text_cols_to_clean \cap t.cols, "str.strip")

\* Lines 60-61.
CleanSpend(t) == ApplyCols(t, {"MUSICA13"} \cap t.cols, "to_numeric.fillna")

\* Lines 38-61, the cleaning steps in order.
Normalize(t) == CleanSpend(StripText(CutAge(CleanAge(CleanGenres(t)))))

\* A mutant of GroupTotal: the group's own total column, when the table
\* already has it, is summed with the constituents.
GroupTotalAccumulating(row, g) ==
    SumColumns(row, GENRE_CATEGORIES[g])
        + (IF g \in DOMAIN row THEN row[g] ELSE 0)

\* Line 66: df[columns].sum(axis=1) for one row.
GroupTotal(row, g) == SumColumns(row, GENRE_CATEGORIES[g])

\* A mutant of Indicator: >= in place of >.
IndicatorNonNegative(total) == IF total >= 0 THEN 1 ELSE 0

\* Line 68: (df[category] > 0).astype(int) for one row.
Indicator(total) == IF total > 0 THEN 1 ELSE 0

\* Lines 66 and 68 for one category.
AddCategory(t, g) ==
    LET summed == WithCol(t, g, [i \in DOMAIN t.rows |-> GroupTotal(t.rows[i], g)])
    IN  WithCol(summed, CatCol(g),
                [i \in DOMAIN summed.rows |-> Indicator(summed.rows[i][g])])

RECURSIVE AddCategories(_, _)
AddCategories(t, i) ==
    IF i = 0 THEN t ELSE AddCategory(AddCategories(t, i - 1), genre_group_columns[i])

\* df[columns] raises KeyError when a listed column is not in the table:
\* the columns of the first category, in dictionary order, that miss one.
MissingConstituents(t) ==
    LET bad == {i \in 1..Len(genre_group_columns) :
                   ~(GENRE_CATEGORIES[genre_group_columns[i]] \subseteq t.cols)}
    IN  IF bad = {} THEN {}
        ELSE LET i == CHOOSE j \in bad : \A m \in bad : j <= m
             IN  GENRE_CATEGORIES[genre_group_columns[i]] \ t.cols

\* Lines 64-68.
AggregateGenres(t) == AddCategories(t, Len(genre_group_columns))

NoError == [type |-> "none", key |-> ""]

KeyError(key) == [type |-> "KeyError", key |-> key]

\* The .str accessor on a column that is not of text raises.
AttributeError(col) == [type |-> "AttributeError", key |-> col]

\* The dtype read_csv gives a column is object when the table has no row
\* or a cell of the column is a text that is no number; a column whose
\* cells are all numbers or missing is numeric.
IsObjectColumn(t, col) ==
    \/ t.rows = <<>>
    \/ \E i \in DOMAIN t.rows :
          t.rows[i][col].k = "str" /\ ~ParseNumber(t.rows[i][col].s).ok

\* The columns of text_cols_to_clean on which df[col].str raises.
NotTextColumns(t) == {c \in text_cols_to_clean \cap t.cols : ~IsObjectColumn(t, c)}

\* The exception load_and_clean_data raises on the table t read from the
\* file, NoError when none: line 44 without EDAD, line 57 on a column that
\* is not of text, line 66 without a constituent.
LoadError(t) ==
    IF "EDAD" \notin t.cols THEN KeyError("EDAD")
    ELSE IF NotTextColumns(t) # {}
         THEN AttributeError(CHOOSE c \in NotTextColumns(t) : TRUE)
         ELSE IF MissingConstituents(t) # {}
              THEN KeyError(CHOOSE c \in MissingConstituents(t) : TRUE)
              ELSE NoError

\* The table load_and_clean_data returns.
LoadResult(t) == AggregateGenres(Normalize(t))

(***************************************************************************)
(* Floats, as exact rationals with NaN and the two infinities.             *)
(***************************************************************************)
Abs(n) == IF n < 0 THEN 0 - n ELSE n

RECURSIVE GCD(_, _)
GCD(a, b) == IF b = 0 THEN a ELSE GCD(b, a % b)

\* n/d in lowest terms with a positive denominator (d # 0).
Rat(n, d) ==
    LET g == GCD(Abs(n), Abs(d))
        sg == IF d < 0 THEN -1 ELSE 1
    IN  [k |-> "rat", num |-> sg * (n \div g), den |-> sg * (d \div g)]

FNaN == [k |-> "nan", num |-> 0, den |-> 1]

FInf == [k |-> "inf", num |-> 1, den |-> 1]

FNegInf == [k |-> "-inf", num |-> -1, den |-> 1]

\* The sum, over the least common denominator.
RAdd(a, b) ==
    LET g == GCD(a.den, b.den)
    IN  Rat(a.num * (b.den \div g) + b.num * (a.den \div g), (a.den \div g) * b.den)

RNeg(a) == [k |-> "rat", num |-> 0 - a.num, den |-> a.den]

RSub(a, b) == RAdd(a, RNeg(b))

\* The product, the common factors cancelled before multiplying.
RMul(a, b) ==
    LET g1 == GCD(Abs(a.num), b.den)
        g2 == GCD(Abs(b.num), a.den)
    IN  Rat((a.num \div g1) * (b.num \div g2), (a.den \div g2) * (b.den \div g1))

\* a / b for two rationals, b # 0.
RDiv(a, b) ==
    RMul(a, IF b.num < 0 THEN [k |-> "rat", num |-> 0 - b.den, den |-> 0 - b.num]
            ELSE [k |-> "rat", num |-> b.den, den |-> b.num])

\* Float division a / b of two whole numbers: x/0 is an infinity, 0/0 is NaN.
FDiv(a, b) ==
    IF b # 0 THEN Rat(a, b)
    ELSE IF a = 0 THEN FNaN ELSE IF a > 0 THEN FInf ELSE FNegInf

\* x * 100
Times100(x) == IF x.k = "rat" THEN Rat(100 * x.num, x.den) ELSE x

RECURSIVE SumSeq(_)
SumSeq(s) == IF s = <<>> THEN 0 ELSE Head(s) + SumSeq(Tail(s))

RECURSIVE RSumSeq(_)
RSumSeq(s) == IF s = <<>> THEN Rat(0, 1) ELSE RAdd(Head(s), RSumSeq(Tail(s)))

(***************************************************************************)
(* groupby                                                                 *)
(***************************************************************************)
\* A mutant of IsKey: the missing key kept as a group of its own
\* (dropna=False).
IsKeyKeepNa(v) == TRUE

\* Whether a key value forms a group: groupby drops the rows whose key is
\* missing (a NaN cell, the null category).
IsKey(v) == v.k # "nan"

\* The group keys of df.groupby(key): the values present (observed=True
\* for the categorical GRUPOS_EDAD).
GroupKeys(t, key) ==
    {t.rows[i][key] : i \in {j \in DOMAIN t.rows : IsKey(t.rows[j][key])}}

\* df.groupby(key)[col].sum() for one key value.
GroupSum(t, key, v, col) ==
    SumSeq([i \in DOMAIN t.rows |->
               IF t.rows[i][key] = v THEN t.rows[i][col] ELSE 0])

\* The number of rows of one group.
GroupSize(t, key, v) ==
    SumSeq([i \in DOMAIN t.rows |-> IF t.rows[i][key] = v THEN 1 ELSE 0])

\* df.groupby(key)[genre_group_columns].sum()
GroupedGenreSums(t, key) ==
    [v \in GroupKeys(t, key) |-> [g \in Groups |-> GroupSum(t, key, v, g)]]

\* df.groupby(key)['CAT_ROCK Y METAL'].mean() * 100
RockMeanPercent(t, key) ==
    [v \in GroupKeys(t, key) |->
        Times100(FDiv(GroupSum(t, key, v, CatCol("ROCK Y METAL")),
                      GroupSize(t, key, v)))]

\* df.groupby(key)['CAT_ROCK Y METAL'].sum()
RockCounts(t, key) ==
    [v \in GroupKeys(t, key) |-> GroupSum(t, key, v, CatCol("ROCK Y METAL"))]

\* Line 178.
age_order == <<Cat("13-17"), Cat("18-29"), Cat("30-49"), Cat("50-64"), Cat("65+")>>

\* Line 179: series.reindex(age_order).fillna(0)
ReindexFill(series) ==
    [b \in {age_order[i] : i \in 1..Len(age_order)} |->
        IF b \in DOMAIN series /\ series[b].k # "nan" THEN series[b] ELSE Rat(0, 1)]

\* A mutant of RowTotal: the last genre group left out of the total.
RowTotalWithoutLast(sums, v) ==
    SumSeq([i \in 1..(Len(genre_group_columns) - 1) |-> sums[v][genre_group_columns[i]]])

\* genre_region.sum(axis=1) for one region.
RowTotal(sums, v) ==
    SumSeq([i \in 1..Len(genre_group_columns) |-> sums[v][genre_group_columns[i]]])

\* Line 157: genre_region.div(genre_region.sum(axis=1), axis=0) * 100
PercentOfRowTotal(sums) ==
    [v \in DOMAIN sums |->
        [g \in Groups |-> Times100(FDiv(sums[v][g], RowTotal(sums, v)))]]

(***************************************************************************)
(* The trend fit of tab_regresion_rock.                                    *)
(***************************************************************************)
\* Lines 297-302: the bands with a midpoint, in dictionary order.
age_group_keys == <<Cat("18-29"), Cat("30-49"), Cat("50-64"), Cat("65+")>>

age_group_mapping ==
    [b \in {age_group_keys[i] : i \in 1..Len(age_group_keys)} |->
        CASE b = Cat("18-29") -> Rat(47, 2)
          [] b = Cat("30-49") -> Rat(79, 2)
          [] b = Cat("50-64") -> Rat(57, 1)
          [] b = Cat("65+")   -> Rat(70, 1)]

\* Lines 303-312: one point per mapped band present in rock_by_age.index.
RECURSIVE RegressionData(_, _)
RegressionData(series, i) ==
    IF i = 0 THEN <<>>
    ELSE LET b    == age_group_keys[i]
             rest == RegressionData(series, i - 1)
         IN  IF b \in DOMAIN series
             THEN Append(rest, [edad_promedio    |-> age_group_mapping[b],
                                preferencia_rock |-> series[b],
                                grupo_edad       |-> b])
             ELSE rest

NoFit ==
    [produced |-> FALSE, slope |-> FNaN, intercept |-> FNaN, r2 |-> FNaN,
     preferencia_5_anos |-> FNaN]

\* Line 318: regression_df[['edad_promedio']] exists when the frame built
\* from the list of points has that column, that is when the list is not
\* empty.  Nothing else guards the fit.
CanFit(points) == Len(points) >= 1

\* Lines 318-325 and 355-357: ordinary least squares on the points, R2 on
\* the same points, and the prediction at x5 = df['EDAD'].mean() + 5.
\* With one point the centred x is all zeros and the least-squares
\* solution of least norm has slope 0; r2_score of fewer than two samples
\* is NaN.
FitAndProject(points, x5) ==
    LET n   == Rat(Len(points), 1)
        X   == [i \in DOMAIN points |-> points[i].edad_promedio]
        Y   == [i \in DOMAIN points |-> points[i].preferencia_rock]
        Sx  == RSumSeq(X)
        Sy  == RSumSeq(Y)
        Sxy == RSumSeq([i \in DOMAIN points |-> RMul(X[i], Y[i])])
        Sxx == RSumSeq([i \in DOMAIN points |-> RMul(X[i], X[i])])
        Syy == RSumSeq([i \in DOMAIN points |-> RMul(Y[i], Y[i])])
        cxy == RSub(RMul(n, Sxy), RMul(Sx, Sy))
        cxx == RSub(RMul(n, Sxx), RMul(Sx, Sx))
        cyy == RSub(RMul(n, Syy), RMul(Sy, Sy))
        b   == IF cxx.num = 0 THEN Rat(0, 1) ELSE RDiv(cxy, cxx)
        a   == RDiv(RSub(Sy, RMul(b, Sx)), n)
        r2  == IF Len(points) < 2 THEN FNaN
               ELSE IF cyy.num = 0 THEN Rat(1, 1)
               ELSE RMul(b, RDiv(cxy, cyy))
    IN  [produced |-> TRUE, slope |-> b, intercept |-> a, r2 |-> r2,
         preferencia_5_anos |-> RAdd(a, RMul(b, x5))]

\* df['EDAD'].mean() + 5
Edad5Anos(t) ==
    RAdd(Rat(SumSeq([i \in DOMAIN t.rows |-> t.rows[i]["EDAD"].n]), Len(t.rows)),
         Rat(5, 1))

(***************************************************************************)
(* The input: the tables read_csv may return.                              *)
(***************************************************************************)
OptionalColumns == {"MUSICA1", "GENERO", "MUSICA9", "MUSICA13"}

AllColumns ==
    {"EDAD", "REGION", "GENERO", "MUSICA1", "MUSICA9", "MUSICA10", "MUSICA13"}
        \cup Musica8Names

\* The column sets of the input: every column, one optional column absent,
\* the two GENERO panels' column and MUSICA9 absent, a constituent of a
\* genre group absent, REGION absent.
ColumnSets ==
    {AllColumns} \cup {AllColumns \ {c} : c \in OptionalColumns}
        \cup {AllColumns \ {"GENERO", "MUSICA9"},
              AllColumns \ {"MUSICA8_13"},
              AllColumns \ {"REGION"}}

\* The cells of the MUSICA8_ columns of one row: base everywhere but where
\* over says otherwise.
Signals(base, over) ==
    [c \in Musica8Names |-> IF c \in DOMAIN over THEN over[c] ELSE base]

RockOnce == Signals(Str(<<"0">>), "MUSICA8_4" :> Str(<<"1">>))

NothingChosen == Signals(NaN, "MUSICA8_14" :> Str(<<" ", "1">>))

RockThrice ==
    Signals(Str(<<"0">>),
            ("MUSICA8_4" :> Str(<<"1">>)) @@ ("MUSICA8_5" :> Str(<<"1">>))
                @@ ("MUSICA8_6" :> Str(<<"1">>)) @@ ("MUSICA8_11" :> Str(<<"2">>)))

Cancelling ==
    Signals(Str(<<"0">>),
            ("MUSICA8_1" :> Str(<<"1">>)) @@ ("MUSICA8_4" :> Str(<<"-", "1">>)))

Unparsable ==
    Signals(Str(<<"N", "S">>),
            ("MUSICA8_2" :> NaN) @@ ("MUSICA8_9" :> Str(<<"2">>))
                @@ ("MUSICA8_13" :> Str(<<"1">>)))

SampleRow(age, region, genero, recital, spend, signals) ==
    [c \in AllColumns |->
        CASE c = "EDAD"     -> age
          [] c = "REGION"   -> region
          [] c = "GENERO"   -> genero
          [] c = "MUSICA1"  -> Str(<<"D", "I", "A", " ">>)
          [] c = "MUSICA9"  -> recital
          [] c = "MUSICA10" -> Str(<<"C", "D">>)
          [] c = "MUSICA13" -> spend
          [] OTHER          -> signals[c]]

\* The EDAD cells of the sample: edges of the bands, ages outside
\* [13, 100], a text that is no number, a missing cell.
AgeTokens ==
    {Str(<<"1", "2">>), Str(<<"1", "3">>), Str(<<"1", "7">>), Str(<<"1", "8">>),
     Str(<<"2", "9">>), Str(<<"3", "0">>), Str(<<"1", "0", "0">>),
     Str(<<"1", "3", "0">>), Str(<<"N", "S">>), NaN}

SampleRows ==
    {SampleRow(a, Str(<<" ", "N", "O", "A">>), Str(<<"M">>), Str(<<"S", "I">>),
               Str(<<"9", "0">>), RockOnce) : a \in AgeTokens}
    \cup
    {SampleRow(Str(<<"3", "0">>), Str(<<"N", "O", "A">>), Str(<<"F", " ">>),
               Str(<<" ", "N", "O">>), Str(<<"N", "S">>), NothingChosen),
     SampleRow(Str(<<"5", "0">>), Str(<<"C", "A", "B", "A", " ">>), Str(<<"F">>),
               Str(<<"S", "I">>), NaN, RockThrice),
     SampleRow(Str(<<"6", "4">>), Str(<<"C", "U", "Y", "O">>), NaN,
               NaN, Str(<<"0">>), Cancelling),
     SampleRow(Str(<<"1", "8">>), NaN, Str(<<"M">>),
               Str(<<"N", "O">>), Str(<<"-", "3">>), Unparsable)}

\* The table of the given columns and rows; the index is 0, 1, ...
MakeTable(cs, rs) ==
    [cols |-> cs,
     rows |-> [i \in DOMAIN rs |->
                 [c \in cs \cup {"index"} |->
                     IF c = "index" THEN i - 1 ELSE rs[i][c]]]]

RawTables ==
    {MakeTable(cs, rs) :
        cs \in ColumnSets,
        rs \in UNION {[1..n -> SampleRows] : n \in 0..MaxRows}}

EmptyTable == [cols |-> {}, rows |-> <<>>]

(***************************************************************************)
(* The run of the script.                                                  *)
(***************************************************************************)
PanelNames ==
    {"contador", "frecuencia", "popularidad", "heatmap_edad", "heatmap_region",
     "rock_edad", "rock_region", "rock_genero", "rock_recitales",
     "resumen_ejecutivo", "regresion"}

WarnMUSICA1 == "Columna 'MUSICA1' (Frecuencia de escucha) no encontrada."

WarnGENERO == "Columna 'GENERO' no encontrada."

WarnMUSICA9 == "Columna 'MUSICA9' (Asistencia a recitales) no encontrada."

WarnResumen ==
    "No se puede generar el resumen ejecutivo porque la columna 'GENERO' no existe."

NameError(name) == [type |-> "NameError", key |-> name]

ZeroDivisionError == [type |-> "ZeroDivisionError", key |-> "len(df)"]

\* idxmax() of an empty series, sns.heatmap of an empty frame.
ValueError(name) == [type |-> "ValueError", key |-> name]

Init ==
    /\ raw \in RawTables
    /\ df = EmptyTable
    /\ first = EmptyTable
    /\ applied = <<>>
    /\ pc = "load"
    /\ err = NoError
    /\ warnings = {}
    /\ panels = [p \in PanelNames |-> "pending"]
    /\ defined = {}
    /\ genre_age = <<>>
    /\ genre_region = <<>>
    /\ genre_region_percent = <<>>
    /\ rock_by_age = <<>>
    /\ rock_counts_by_age = <<>>
    /\ rock_by_region = <<>>
    /\ rock_by_gender = <<>>
    /\ regression_df = <<>>
    /\ fit = NoFit

tabvars ==
    <<warnings, panels, defined, genre_age, genre_region, genre_region_percent,
      rock_by_age, rock_counts_by_age, rock_by_region, rock_by_gender,
      regression_df, fit>>

\* Line 73: df, genre_group_columns = load_and_clean_data()
load_and_clean_data ==
    /\ pc = "load"
    /\ IF LoadError(raw) # NoError
       THEN /\ pc' = "crashed"
            /\ err' = LoadError(raw)
            /\ UNCHANGED <<df, first>>
       ELSE /\ df' = LoadResult(raw)
            /\ first' = df'
            /\ pc' = "tab_contador"
            /\ UNCHANGED err
    /\ UNCHANGED <<raw, applied, tabvars>>

\* Lines 108-111.
tab_contador ==
    /\ pc = "tab_contador"
    /\ panels' = [panels EXCEPT !["contador"] = "rendered"]
    /\ pc' = "tab_resumen"
    /\ UNCHANGED <<raw, df, first, applied, err, warnings, defined, genre_age,
                   genre_region, genre_region_percent, rock_by_age,
                   rock_counts_by_age, rock_by_region, rock_by_gender,
                   regression_df, fit>>

\* Lines 116-138.
tab_resumen ==
    /\ pc = "tab_resumen"
    /\ IF "MUSICA1" \in df.cols
       THEN /\ panels' = [panels EXCEPT !["frecuencia"] = "rendered",
                                        !["popularidad"] = "rendered"]
            /\ UNCHANGED warnings
       ELSE /\ panels' = [panels EXCEPT !["frecuencia"] = "skipped",
                                        !["popularidad"] = "rendered"]
            /\ warnings' = warnings \cup {WarnMUSICA1}
    /\ pc' = "tab_edad"
    /\ UNCHANGED <<raw, df, first, applied, err, defined, genre_age,
                   genre_region, genre_region_percent, rock_by_age,
                   rock_counts_by_age, rock_by_region, rock_by_gender,
                   regression_df, fit>>

\* Lines 148 and 160: sns.heatmap takes the minimum of the values to draw
\* and raises ValueError on a frame with no row.
CanDrawHeatmap(frame) == DOMAIN frame # {}

\* Lines 143-149.
tab_edad ==
    /\ pc = "tab_edad"
    /\ genre_age' = GroupedGenreSums(df, "GRUPOS_EDAD")
    /\ defined' = defined \cup {"genre_age"}
    /\ IF CanDrawHeatmap(genre_age')
       THEN /\ panels' = [panels EXCEPT !["heatmap_edad"] = "rendered"]
            /\ pc' = "tab_region"
            /\ UNCHANGED err
       ELSE /\ panels' = [panels EXCEPT !["heatmap_edad"] = "failed"]
            /\ pc' = "crashed"
            /\ err' = ValueError("genre_age")
    /\ UNCHANGED <<raw, df, first, applied, warnings,
                   genre_region, genre_region_percent, rock_by_age,
                   rock_counts_by_age, rock_by_region, rock_by_gender,
                   regression_df, fit>>

\* Lines 154-161.  df.groupby('REGION') raises KeyError without the column.
tab_region ==
    /\ pc = "tab_region"
    /\ IF "REGION" \notin df.cols
       THEN /\ pc' = "crashed"
            /\ err' = KeyError("REGION")
            /\ panels' = [panels EXCEPT !["heatmap_region"] = "failed"]
            /\ UNCHANGED <<genre_region, genre_region_percent, defined>>
       ELSE /\ genre_region' = GroupedGenreSums(df, "REGION")
            /\ genre_region_percent' = PercentOfRowTotal(genre_region')
            /\ defined' = defined \cup {"genre_region", "genre_region_percent"}
            /\ IF CanDrawHeatmap(genre_region_percent')
               THEN /\ panels' = [panels EXCEPT !["heatmap_region"] = "rendered"]
                    /\ pc' = "tab_perfil_rock"
                    /\ UNCHANGED err
               ELSE /\ panels' = [panels EXCEPT !["heatmap_region"] = "failed"]
                    /\ pc' = "crashed"
                    /\ err' = ValueError("genre_region_percent")
    /\ UNCHANGED <<raw, df, first, applied, warnings, genre_age, rock_by_age,
                   rock_counts_by_age, rock_by_region, rock_by_gender,
                   regression_df, fit>>

\* Line 214.
GenderPanelEnabled(t) == "GENERO" \in t.cols

\* Line 232.
RecitalPanelEnabled(t) == "MUSICA9" \in t.cols

\* A mutant of ResumenEnabled: the summary built whatever the columns.
ResumenAlways(t) == TRUE

\* Line 262.
ResumenEnabled(t) == "GENERO" \in t.cols

\* Lines 263-280: the exception the executive summary raises, NoError when
\* none.  names are the script's variables assigned so far.
ResumenError(t, names, byRegion, byGender) ==
    IF Len(t.rows) = 0 THEN ZeroDivisionError
    ELSE IF "rock_by_region" \notin names THEN NameError("rock_by_region")
    ELSE IF DOMAIN byRegion = {} THEN ValueError("rock_by_region")
    ELSE IF "rock_by_gender" \notin names THEN NameError("rock_by_gender")
    ELSE IF DOMAIN byGender = {} THEN ValueError("rock_by_gender")
    ELSE NoError

\* Lines 166-282.
tab_perfil_rock ==
    /\ pc = "tab_perfil_rock"
    /\ LET byRegion == RockMeanPercent(df, "REGION")
           byGender == IF GenderPanelEnabled(df)
                       THEN RockMeanPercent(df, "GENERO") ELSE rock_by_gender
           names    == defined
                         \cup {"rock_by_age", "rock_counts_by_age", "rock_by_region"}
                         \cup (IF GenderPanelEnabled(df) THEN {"rock_by_gender"} ELSE {})
           e        == IF ResumenEnabled(df)
                       THEN ResumenError(df, names, byRegion, byGender)
                       ELSE NoError
       IN  /\ rock_by_age' = ReindexFill(RockMeanPercent(df, "GRUPOS_EDAD"))
           /\ rock_counts_by_age' = RockCounts(df, "GRUPOS_EDAD")
           /\ rock_by_region' = byRegion
           /\ rock_by_gender' = byGender
           /\ defined' = names
           /\ warnings' = warnings
                 \cup (IF GenderPanelEnabled(df) THEN {} ELSE {WarnGENERO})
                 \cup (IF RecitalPanelEnabled(df) THEN {} ELSE {WarnMUSICA9})
                 \cup (IF ResumenEnabled(df) THEN {} ELSE {WarnResumen})
           /\ panels' =
                 [panels EXCEPT
                    !["rock_edad"] = "rendered",
                    !["rock_region"] = "rendered",
                    !["rock_genero"] =
                        IF GenderPanelEnabled(df) THEN "rendered" ELSE "skipped",
                    !["rock_recitales"] =
                        IF RecitalPanelEnabled(df) THEN "rendered" ELSE "skipped",
                    !["resumen_ejecutivo"] =
                        IF ~ResumenEnabled(df) THEN "skipped"
                        ELSE IF e = NoError THEN "rendered" ELSE "failed"]
           /\ err' = e
           /\ pc' = IF e = NoError THEN "tab_regresion_rock" ELSE "crashed"
    /\ UNCHANGED <<raw, df, first, applied, genre_age, genre_region,
                   genre_region_percent, regression_df, fit>>

\* Lines 287-399.
tab_regresion_rock ==
    /\ pc = "tab_regresion_rock"
    /\ LET byAge  == RockMeanPercent(df, "GRUPOS_EDAD")
           points == RegressionData(byAge, Len(age_group_keys))
       IN  /\ rock_by_age' = byAge
           /\ regression_df' = points
           /\ defined' = defined \cup {"rock_by_age", "regression_df"}
           /\ IF CanFit(points)
              THEN /\ fit' = FitAndProject(points, Edad5Anos(df))
                   /\ panels' = [panels EXCEPT !["regresion"] = "rendered"]
                   /\ pc' = "done"
                   /\ UNCHANGED err
              ELSE /\ pc' = "crashed"
                   /\ err' = KeyError("edad_promedio")
                   /\ panels' = [panels EXCEPT !["regresion"] = "failed"]
                   /\ UNCHANGED fit
    /\ UNCHANGED <<raw, df, first, applied, warnings, genre_age, genre_region,
                   genre_region_percent, rock_counts_by_age, rock_by_region,
                   rock_by_gender>>

Next ==
    \/ load_and_clean_data
    \/ tab_contador
    \/ tab_resumen
    \/ tab_edad
    \/ tab_region
    \/ tab_perfil_rock
    \/ tab_regresion_rock

Spec == Init /\ [][Next]_vars

(***************************************************************************)
(* The cleaning and the aggregation applied again to the table they gave.  *)
(***************************************************************************)
\* Lines 38-61 on the loaded table.
Renormalize ==
    /\ pc = "tab_contador"
    /\ Len(applied) < MaxApply
    /\ df' = Normalize(df)
    /\ applied' = Append(applied, "normalize")
    /\ UNCHANGED <<raw, first, pc, err, tabvars>>

\* Lines 64-68 on the loaded table.
Reaggregate ==
    /\ pc = "tab_contador"
    /\ Len(applied) < MaxApply
    /\ df' = AggregateGenres(df)
    /\ applied' = Append(applied, "aggregate")
    /\ UNCHANGED <<raw, first, pc, err, tabvars>>

NextReapply ==
    \/ load_and_clean_data
    \/ Renormalize
    \/ Reaggregate

SpecReapply == Init /\ [][NextReapply]_vars

(***************************************************************************)
(* Properties.                                                             *)
(***************************************************************************)
\* load_and_clean_data has returned a table.
Loaded == df.cols # {}

LabelSet == {labels[i] : i \in 1..Len(labels)}

\* The ages each label stands for.
BandRange(b) ==
    CASE b = Cat("13-17") -> 13..17
      [] b = Cat("18-29") -> 18..29
      [] b = Cat("30-49") -> 30..49
      [] b = Cat("50-64") -> 50..64
      [] b = Cat("65+")   -> 65..100

\* The rows of df whose age lies in the range of band b.
RowsOfBand(b) == {i \in DOMAIN df.rows : df.rows[i]["EDAD"].n \in BandRange(b)}

RECURSIVE SumFn(_, _)
SumFn(f, S) ==
    IF S = {} THEN 0
    ELSE LET x == CHOOSE y \in S : TRUE IN f[x] + SumFn(f, S \ {x})

\* The sum of column col over a set of rows of df.
SumOfRows(S, col) == SumFn([i \in DOMAIN df.rows |-> df.rows[i][col]], S)

\* The Rock preference of band b, in percent, over the rows in its range.
BandPreference(b) ==
    [k |-> "rat", num |-> 100 * SumOfRows(RowsOfBand(b), "CAT_ROCK Y METAL"),
     den |-> Cardinality(RowsOfBand(b))]

SameRational(x, y) == x.k = "rat" /\ x.num * y.den = y.num * x.den

\* Every whole age from 13 to 100 lies in exactly one bin of the cut, whose
\* label is the band the age belongs to.
EveryAgeInOneBand ==
    \A a \in 13..100 :
       /\ Cardinality({i \in 1..Len(labels) : InBin(a, i)}) = 1
       /\ AgeGroup(a) \in LabelSet
       /\ a \in BandRange(AgeGroup(a))

\* C1: every whole age from 13 to 100 lies in exactly one bin of the cut
\* and gets the label of the band it belongs to (13-17, 18-29, 30-49, 50-64,
\* 65+): the bands are disjoint and leave no gap in [13, 100].  The same
\* holds for the GRUPOS_EDAD of every row of the loaded table.
C1_AgeBandsPartition ==
    /\ EveryAgeInOneBand
    /\ Loaded =>
          \A i \in DOMAIN df.rows :
             df.rows[i]["EDAD"].n \in 13..100 =>
                /\ df.rows[i]["GRUPOS_EDAD"] \in LabelSet
                /\ df.rows[i]["EDAD"].n \in BandRange(df.rows[i]["GRUPOS_EDAD"])

\* C1 witness: a loaded table with the two ends of [13, 100], each labelled.
C1_Witness ==
    /\ Loaded
    /\ \E i, j \in DOMAIN df.rows :
          /\ df.rows[i]["EDAD"] = Num(13) /\ df.rows[i]["GRUPOS_EDAD"] = Cat("13-17")
          /\ df.rows[j]["EDAD"] = Num(100) /\ df.rows[j]["GRUPOS_EDAD"] = Cat("65+")

\* The labels of the ages 17, 18, 29, 30, 130.
ScenarioLabels ==
    [i \in 1..5 |-> AgeGroup(<<17, 18, 29, 30, 130>>[i])]
       = <<Cat("13-17"), Cat("18-29"), Cat("18-29"), Cat("30-49"), NaN>>

\* C2: an age outside [13, 100] gets the null band, never an edge label,
\* and its record is in no band of the age-grouped aggregates: the bands of
\* genre_age, rock_by_age and rock_counts_by_age are the five labels only,
\* each band's sums, count and mean are those of the rows whose age is in
\* the band's range, and the regression points are those bands' means.
\* Ages 17, 18, 29, 30, 130 get 13-17, 18-29, 18-29, 30-49, null.
C2_OutOfRangeExcluded ==
    /\ ScenarioLabels
    /\ Loaded =>
          \A i \in DOMAIN df.rows :
             df.rows[i]["EDAD"].n \notin 13..100 => df.rows[i]["GRUPOS_EDAD"] = NaN
    /\ "genre_age" \in defined =>
          /\ DOMAIN genre_age = {b \in LabelSet : RowsOfBand(b) # {}}
          /\ \A b \in DOMAIN genre_age : \A g \in Groups :
                genre_age[b][g] = SumOfRows(RowsOfBand(b), g)
    /\ "rock_counts_by_age" \in defined =>
          /\ DOMAIN rock_counts_by_age = {b \in LabelSet : RowsOfBand(b) # {}}
          /\ \A b \in DOMAIN rock_counts_by_age :
                rock_counts_by_age[b] = SumOfRows(RowsOfBand(b), "CAT_ROCK Y METAL")
    /\ "rock_by_age" \in defined =>
          /\ DOMAIN rock_by_age \subseteq LabelSet
          /\ \A b \in DOMAIN rock_by_age :
                IF RowsOfBand(b) = {} THEN rock_by_age[b] = Rat(0, 1)
                ELSE SameRational(rock_by_age[b], BandPreference(b))
    /\ "regression_df" \in defined =>
          /\ {regression_df[i].grupo_edad : i \in DOMAIN regression_df}
                = {b \in DOMAIN age_group_mapping : RowsOfBand(b) # {}}
          /\ \A i \in DOMAIN regression_df :
                SameRational(regression_df[i].preferencia_rock,
                             BandPreference(regression_df[i].grupo_edad))

\* C2 witness: the run is over, the table holds a Rock listener aged 130
\* and a row in a band.
C2_Witness ==
    /\ pc = "done"
    /\ \E i, j \in DOMAIN df.rows :
          /\ df.rows[i]["EDAD"] = Num(130)
          /\ df.rows[i]["CAT_ROCK Y METAL"] = 1
          /\ df.rows[i]["GRUPOS_EDAD"] = NaN
          /\ df.rows[j]["GRUPOS_EDAD"] = Cat("18-29")

\* The indicators of the totals 0, 3, 0.
ScenarioIndicators == [i \in 1..3 |-> Indicator(<<0, 3, 0>>[i])] = <<0, 1, 0>>

\* C3: in the loaded table, for every row and every genre group, the
\* indicator column is 1 exactly when the group's total is greater than 0,
\* and 0 otherwise; totals 0, 3, 0 give indicators 0, 1, 0.
C3_IndicatorIffPositive ==
    /\ ScenarioIndicators
    /\ Loaded =>
          \A i \in DOMAIN df.rows : \A g \in Groups :
             /\ df.rows[i][CatCol(g)] \in {0, 1}
             /\ df.rows[i][CatCol(g)] = 1 <=> df.rows[i][g] > 0

\* C3 witness: a loaded table with a total of 3, a total of 0 and a
\* negative total.
C3_Witness ==
    /\ Loaded
    /\ \E i, j \in DOMAIN df.rows :
          /\ df.rows[i]["ROCK Y METAL"] = 3 /\ df.rows[i]["CAT_ROCK Y METAL"] = 1
          /\ df.rows[i]["MUSICA URBANA"] = 0 /\ df.rows[i]["CAT_MUSICA URBANA"] = 0
          /\ df.rows[j]["ROCK Y METAL"] < 0 /\ df.rows[j]["CAT_ROCK Y METAL"] = 0

\* The raw row a row of df comes from: the index is kept by the cleaning.
RawRowOf(row) == raw.rows[row["index"] + 1]

\* The number a raw MUSICA8_ cell of the sample stands for, 0 for a cell
\* that is missing or no number.
SignalValue(cell) ==
    CASE cell = Str(<<"0">>)      -> 0
      [] cell = Str(<<"1">>)      -> 1
      [] cell = Str(<<" ", "1">>) -> 1
      [] cell = Str(<<"2">>)      -> 2
      [] cell = Str(<<"-", "1">>) -> -1
      [] OTHER                    -> 0

\* C4 as stated: after normalization every MUSICA8_ cell holds a
\* non-negative number.
C4_SignalsNonNegative ==
    Loaded =>
       \A i \in DOMAIN df.rows : \A c \in {x \in df.cols : StartsWithMUSICA8(x)} :
          df.rows[i][c].k = "num" /\ df.rows[i][c].n >= 0

\* C4 amended: after normalization every MUSICA8_ cell holds a number,
\* cell by cell: the number the raw cell stands for, 0 when the raw cell is
\* missing or no number; it is negative only where the raw cell is a
\* negative number.
C4_SignalsNumeric ==
    Loaded =>
       \A i \in DOMAIN df.rows : \A c \in {x \in df.cols : StartsWithMUSICA8(x)} :
          /\ df.rows[i][c].k = "num"
          /\ df.rows[i][c].n = SignalValue(RawRowOf(df.rows[i])[c])

\* C4 witness: a loaded table with a cell that was no number and holds 0,
\* a missing cell that holds 0, and a cell that holds -1.
C4_Witness ==
    /\ Loaded
    /\ \E i, j \in DOMAIN df.rows :
          /\ RawRowOf(df.rows[i])["MUSICA8_1"] = Str(<<"N", "S">>)
          /\ df.rows[i]["MUSICA8_1"] = Num(0)
          /\ RawRowOf(df.rows[i])["MUSICA8_2"] = NaN
          /\ df.rows[i]["MUSICA8_2"] = Num(0)
          /\ df.rows[j]["MUSICA8_4"] = Num(-1)

\* The constituents of the genre groups that the input table lacks.
AbsentConstituents == (UNION {GENRE_CATEGORIES[g] : g \in Groups}) \ raw.cols

\* C5 as stated: with a constituent column of a genre group absent from
\* the table, the aggregation completes: the load does not crash, and each
\* group's total is the sum of its constituents present.
C5_AbsentConstituentTolerated ==
    (AbsentConstituents # {} /\ "EDAD" \in raw.cols /\ pc # "load") =>
       /\ pc # "crashed"
       /\ Loaded
       /\ \A i \in DOMAIN df.rows : \A g \in Groups :
             df.rows[i][g] = SumColumns(df.rows[i], GENRE_CATEGORIES[g] \cap raw.cols)

\* The trend fit has run on fewer than two points.
DegenerateFitInput ==
    /\ "regression_df" \in defined
    /\ Cardinality({regression_df[i].edad_promedio : i \in DOMAIN regression_df}) < 2

\* C6 as stated: on fewer than two distinct x-values the trend fit ends in
\* a result-absent state: the script does not crash, and no slope,
\* intercept, R2 or projection is produced.
C6_DegenerateFitIsAbsent ==
    DegenerateFitInput => pc # "crashed" /\ fit = NoFit

\* The optional column a panel reads, "" for a panel that reads none.
PanelColumn(p) ==
    CASE p = "frecuencia"        -> "MUSICA1"
      [] p = "rock_genero"       -> "GENERO"
      [] p = "rock_recitales"    -> "MUSICA9"
      [] p = "resumen_ejecutivo" -> "GENERO"
      [] OTHER                   -> ""

\* The warning shown in place of a skipped panel.
PanelWarning(p) ==
    CASE p = "frecuencia"        -> WarnMUSICA1
      [] p = "rock_genero"       -> WarnGENERO
      [] p = "rock_recitales"    -> WarnMUSICA9
      [] p = "resumen_ejecutivo" -> WarnResumen
      [] OTHER                   -> ""

\* The loaded table has what the panels need apart from the optional
\* columns: a row in a band with a midpoint, a row with a region and, where
\* the summary is built, a row with a gender.
Presentable ==
    /\ "REGION" \in df.cols
    /\ \E i \in DOMAIN df.rows : df.rows[i]["GRUPOS_EDAD"] \in DOMAIN age_group_mapping
    /\ \E i \in DOMAIN df.rows : df.rows[i]["REGION"] # NaN
    /\ "GENERO" \in df.cols => \E i \in DOMAIN df.rows : df.rows[i]["GENERO"] # NaN

\* C7: with an optional column (MUSICA1, GENERO, MUSICA9, MUSICA13) absent,
\* the panels that read it, and only those, are skipped, each with its
\* warning; no panel fails on the absent column or on a value that only a
\* skipped panel computes (no KeyError on an optional column, no
\* NameError); and the run of a presentable table ends with every other
\* panel rendered.
C7_MissingOptionalColumnIsLocal ==
    /\ err.type # "NameError"
    /\ ~(err.type = "KeyError" /\ err.key \in OptionalColumns)
    /\ Loaded =>
          \A p \in PanelNames :
             /\ panels[p] = "skipped" =>
                   /\ PanelColumn(p) \in OptionalColumns \ df.cols
                   /\ PanelWarning(p) \in warnings
             /\ panels[p] \in {"rendered", "failed"} =>
                   PanelColumn(p) \in df.cols \cup {""}
    /\ (Loaded /\ Presentable) =>
          /\ pc # "crashed"
          /\ pc = "done" =>
                \A p \in PanelNames :
                   panels[p] = IF PanelColumn(p) \in df.cols \cup {""}
                               THEN "rendered" ELSE "skipped"

\* C7 witness: a run that ended without GENERO: the gender panel and the
\* summary skipped with their warnings, every other panel rendered.
C7_Witness ==
    /\ pc = "done"
    /\ "GENERO" \notin df.cols
    /\ panels["rock_genero"] = "skipped"
    /\ panels["resumen_ejecutivo"] = "skipped"
    /\ {WarnGENERO, WarnResumen} \subseteq warnings
    /\ \A p \in PanelNames \ {"rock_genero", "resumen_ejecutivo"} : panels[p] = "rendered"

\* The rows of df of one region.
RowsOfRegion(v) == {i \in DOMAIN df.rows : df.rows[i]["REGION"] = v}

\* All the genre preference of one region: its rows' five totals.
RegionTotal(v) ==
    SumFn([g \in Groups |-> SumOfRows(RowsOfRegion(v), g)], Groups)

\* The sum of the percentages of one region.
PercentSum(v) ==
    RSumSeq([i \in 1..Len(genre_group_columns) |->
                genre_region_percent[v][genre_group_columns[i]]])

\* C8: in the percentages by region there is one row per region present;
\* where the region's total over the genre groups is not zero the
\* percentages are numbers that add up to 100; where it is zero every
\* percentage is NaN or an infinity, and the step does not raise.
C8_PercentagesSumTo100 ==
    "genre_region_percent" \in defined =>
       /\ DOMAIN genre_region_percent
             = {df.rows[i]["REGION"] : i \in DOMAIN df.rows} \ {NaN}
       /\ \A v \in DOMAIN genre_region_percent :
             IF RegionTotal(v) # 0
             THEN /\ \A g \in Groups : genre_region_percent[v][g].k = "rat"
                  /\ PercentSum(v) = Rat(100, 1)
             ELSE \A g \in Groups :
                     genre_region_percent[v][g] \in {FNaN, FInf, FNegInf}

\* C8 witness: a region whose percentages are shared by two genre groups,
\* and a region whose total is zero.
C8_Witness ==
    /\ "genre_region_percent" \in defined
    /\ \E v, w \in DOMAIN genre_region_percent :
          /\ RegionTotal(v) # 0
          /\ Cardinality({g \in Groups : genre_region_percent[v][g].num # 0}) >= 2
          /\ RegionTotal(w) = 0
          /\ genre_region_percent[w]["ROCK Y METAL"] = FNegInf

\* C9: the cleaning steps applied again to the table the load returned
\* change nothing: the same rows, none dropped, and the same value in
\* every cell.
C9_NormalizeIdempotent ==
    (applied # <<>> /\ \A i \in DOMAIN applied : applied[i] = "normalize") =>
       df = first

\* C9 witness: the cleaning applied again to a table whose first cleaning
\* dropped a row and trimmed a text.
C9_Witness ==
    /\ applied # <<>>
    /\ \A i \in DOMAIN applied : applied[i] = "normalize"
    /\ Len(first.rows) < Len(raw.rows)
    /\ \E i \in DOMAIN first.rows :
          first.rows[i]["REGION"] \notin {NaN, RawRowOf(first.rows[i])["REGION"]}

\* C10: the aggregation applied again to the table that already has the
\* total and indicator columns gives, for every row and every group, the
\* totals and indicators of the first application.
C10_AggregateIdempotent ==
    (applied # <<>> /\ \A i \in DOMAIN applied : applied[i] = "aggregate") =>
       /\ df.cols = first.cols
       /\ Len(df.rows) = Len(first.rows)
       /\ \A i \in DOMAIN df.rows : \A g \in Groups :
             /\ df.rows[i][g] = first.rows[i][g]
             /\ df.rows[i][CatCol(g)] = first.rows[i][CatCol(g)]

\* C10 witness: the aggregation applied again to a table with a total
\* that is not zero.
C10_Witness ==
    /\ applied # <<>>
    /\ \A i \in DOMAIN applied : applied[i] = "aggregate"
    /\ \E i \in DOMAIN df.rows : df.rows[i]["ROCK Y METAL"] = 3

=============================================================================
